---- MODULE Spec2Model ----
(***************************************************************************)
(* A federated-learning client (src/client.py, class Client): one neural   *)
(* network, an SGD optimizer with momentum, a step-decay learning-rate     *)
(* scheduler, a proximal coefficient mu and two data loaders.              *)
(*                                                                         *)
(* The network class, the loss class and the data loaders are supplied by  *)
(* the configuration.  The model instantiates them with the smallest       *)
(* network on which every line of train/test is exercised:                 *)
(*   parameters  "fc.weight" (w) and "fc.bias" (b), both scalars;          *)
(*   forward     a sample with feature x gets the score s = w*x + b and    *)
(*               the two class outputs <<1 - s, s>>;                       *)
(*   loss        the sum over the batch of (s - label)^2;                  *)
(*   a sample    <<x, label>>, a batch a sequence of samples, a data       *)
(*               source a sequence of batches, iterated in its order; the  *)
(*               training data source is a list, which can be indexed, or  *)
(*               a DataLoader that does not shuffle, which cannot.         *)
(* The configuration's numbers (rate 1.0, momentum 1, gamma 0.5, floor     *)
(* 0.5, mu 2.0 or 0.0) are chosen with the data so that                    *)
(* every number that occurs is an integer or a half: the arithmetic of the *)
(* model is then the floating-point arithmetic of the code, exactly.  The  *)
(* learning rate is kept in halves (the value 2 is the rate 1.0); every    *)
(* other quantity is kept as it is.  Quotients that are not integers (the  *)
(* logged mean loss, accuracy, precision, recall) are kept as reduced      *)
(* fractions <<numerator, denominator>>; <<0, 0>> is not-a-number.         *)
(***************************************************************************)
EXTENDS Integers, Sequences, FiniteSets, TLC

\* ------------------------------------------------------------ configuration

\* args.get_learning_rate(), in halves: 1.0
LearningRate == 2
\* args.get_momentum()
Momentum == 1
\* args.get_scheduler_step_size()
SchedulerStepSize == 2
\* 1 / args.get_scheduler_gamma(): gamma is 0.5
SchedulerGammaInv == 2
\* args.get_min_lr(), in halves: 0.5
MinLr == 1
\* args.get_log_interval()
LogInterval == 2
\* args.mu
ArgsMu == 2

\* args.get_cr_save_start_suffix(), args.get_cr_save_end_suffix()
StartSuffix == "start"
EndSuffix == "end"

\* ------------------------------------------------------------------ bounds

\* The number of operations called on the client in one behaviour.
MaxCalls == 3

\* ---------------------------------------------------------------- the data

Weight == "fc.weight"
Bias == "fc.bias"
Keys == {Weight, Bias}

Params(w, b) == [k \in Keys |-> IF k = Weight THEN w ELSE b]

\* seed=None and seed=40, the default of train
NoSeed == << >>
Seeds == {NoSeed, <<40>>}

\* The arguments of train: the round, the epochs (none, several), the
\* objective (a plain one and a proximal one; "fed_greedy" takes the branch
\* of "fed_prox") and the seed.
Rounds == {3}
EpochCounts == {0, 2}
Objectives == {"fed_avg", "fed_prox"}
MuValues == {0, 2}

\* A training data source: its batches in the order its iterator yields them,
\* and whether it can be indexed.
ListLoader(batches) == [subscriptable |-> TRUE, batches |-> batches]
DataLoader(batches) == [subscriptable |-> FALSE, batches |-> batches]

\* The training data sources: a list that yields no batch, a list of three
\* batches, and a DataLoader of one batch.
TrainLoaders ==
    { ListLoader(<< >>),
      ListLoader(<< <<<<1, 1>>>>, <<<<1, 0>>, <<0, 1>>>>, <<<<0, 0>>>> >>),
      DataLoader(<< <<<<1, 1>>>> >>) }

\* The test data sources.
TestLoaders ==
    { << <<<<1, 1>>, <<1, 1>>>>, <<<<0, 1>>, <<1, 0>>, <<0, 0>>>> >> }

\* What the aggregator hands to update_nn_parameters: a parameter set of the
\* network's architecture, one missing a layer, one with a layer too many.
NewParamSets ==
    { Params(0, 0),
      [k \in {Weight} |-> 1],
      [k \in Keys \cup {"fc2.weight"} |-> 1] }

\* The networks handed to set_net: a new instance of the network class, whose
\* parameters are the default ones and whose mode is the training mode.
NewNets == { Params(0, 0) }

\* What save_model is called with on its own.
SaveSuffixes == {"mine"}

\* What diff_squared_sum is called with on its own: parameters in an
\* OrderedDict, and in a plain dict.
OtherModels == { [class |-> c, params |-> Params(1, 0)] : c \in {"OrderedDict", "dict"} }

\* ------------------------------------------------------------- arithmetic

Abs(n) == IF n < 0 THEN -n ELSE n

RECURSIVE Gcd(_, _)
Gcd(a, b) == IF b = 0 THEN a ELSE Gcd(b, a % b)

\* numpy's and Python's true division n / d as a reduced fraction; 0/0 is nan
\* (<<0, 0>>), n/0 is +-inf (<<+-1, 0>>): numpy warns and does not raise.
Div(n, d) ==
    LET g == Gcd(Abs(n), Abs(d))
        s == IF d < 0 THEN -1 ELSE 1
    IN IF g = 0 THEN <<0, 0>> ELSE <<s * (n \div g), s * (d \div g)>>

NaN == <<0, 0>>

RECURSIVE SumSeq(_)
SumSeq(s) == IF s = << >> THEN 0 ELSE Head(s) + SumSeq(Tail(s))

RECURSIVE SumSet(_, _)
SumSet(f, S) ==
    IF S = {} THEN 0
    ELSE LET k == CHOOSE k \in S : TRUE IN f[k] + SumSet(f, S \ {k})

\* ------------------------------------------------- the network and the loss

\* self.net(inputs) for one sample: the score and the two class outputs.
Score(p, x) == p[Weight] * x + p[Bias]
Outputs(p, x) == <<1 - Score(p, x), Score(p, x)>>

\* self.loss_function(outputs, labels): the summed squared error of a batch.
RECURSIVE LossFunction(_, _)
LossFunction(p, batch) ==
    IF batch = << >> THEN 0
    ELSE LET x == Head(batch)[1]
             y == Head(batch)[2]
             d == Outputs(p, x)[2] - y
         IN d * d + LossFunction(p, Tail(batch))

\* The gradient of LossFunction with respect to parameter k.
RECURSIVE LossGrad(_, _, _)
LossGrad(p, batch, k) ==
    IF batch = << >> THEN 0
    ELSE LET x == Head(batch)[1]
             y == Head(batch)[2]
             d == Outputs(p, x)[2] - y
         IN 2 * d * (IF k = Weight THEN x ELSE 1) + LossGrad(p, Tail(batch), k)

\* diff_squared_sum(model2) with an OrderedDict: the squared differences, summed
\* over the names of model2 that the network has too.
DiffSquaredSum(params1, model2) ==
    LET names == DOMAIN model2 \cap DOMAIN params1
        sq == [k \in names |-> (params1[k] - model2[k]) * (params1[k] - model2[k])]
    IN SumSet(sq, names)

\* IsProximal taking every objective for a proximal one.
IsProximalAlways(type) == TRUE

IsProximal(type) == type \in {"fed_prox", "fed_greedy"}

\* The loss of one batch step: the primary loss, plus (mu / 2) * dss for a
\* proximal objective.
StepLoss(p, batch, type, m, snapshot) ==
    LossFunction(p, batch)
      + (IF IsProximal(type) THEN (m * DiffSquaredSum(p, snapshot)) \div 2 ELSE 0)

\* What loss.backward() adds to the gradient of parameter k for the proximal
\* term.  diff_squared_sum reads the parameters through get_nn_parameters(),
\* that is state_dict(), whose tensors are detached from the autograd graph,
\* and the snapshot is a plain copy: the term is a constant of the graph.
PenaltyGrad(p, type, m, snapshot, k) == 0

\* optimizer.zero_grad(): the gradients of the parameters the optimizer holds
\* are cleared; those of the network are among them only while the optimizer
\* holds the network's parameters.
ZeroGrad(g, held) == IF held THEN [k \in Keys |-> 0] ELSE g

\* p.grad after loss.backward(), which adds to the gradient g already there.
Backward(g, p, batch, type, m, snapshot) ==
    [k \in Keys |-> g[k] + LossGrad(p, batch, k) + PenaltyGrad(p, type, m, snapshot, k)]

\* optim.SGD.step(): buf = momentum * buf + grad; p = p - lr * buf.
SgdBuffer(buf, g) == [k \in Keys |-> Momentum * buf[k] + g[k]]
SgdParams(p, buf, rate) == [k \in Keys |-> p[k] - (rate * buf[k]) \div 2]

\* MinCapableStepLR.step(): count the epoch; every step_size epochs multiply
\* the rate by gamma unless that would take it below min_lr.
SchedulerIdx(idx) == idx + 1
SchedulerLr(rate, idx) ==
    IF idx % SchedulerStepSize = 0 /\ rate >= MinLr * SchedulerGammaInv
    THEN rate \div SchedulerGammaInv
    ELSE rate

\* torch.manual_seed(seed): the generator's state is a function of the seed.
\* Nothing of the client draws from the generator: the data sources are
\* iterated in their order and the network's forward pass is deterministic.
ManualSeed(seed) == seed[1]

\* ------------------------------------------------------- parameter storage

\* Tensor storage: an address holds a parameter set.  NetAddr is the storage
\* of the network self.net names; OldAddr is the storage of the network the
\* client was constructed with, once set_net has replaced it.
NetAddr == "net"
OldAddr == "old"
SnapAddr == "snapshot"
NoRef == "null"

\* get_nn_parameters(): state_dict(), whose tensors share the network's storage.
GetNnParameters == NetAddr

\* DeepCopy without the copy: the reference itself.
AliasCopy(store, addr) == [ref |-> addr, store |-> store]

\* copy.deepcopy of a parameter set: new storage holding the same values.
DeepCopy(store, addr) ==
    [ref |-> SnapAddr, store |-> (SnapAddr :> store[addr]) @@ store]

\* The checkpoint's name: model_<client_idx>_<round>_<suffix>.model, for the one
\* client of the model.
SavePath(round, suffix) == <<round, suffix>>

\* save_model: torch.save(self.get_nn_parameters(), full_save_path).
SaveModel(fs, store, round, suffix) ==
    (SavePath(round, suffix) :> store[GetNnParameters]) @@ fs

\* load_model_from_file(model_file_path): a new instance of the network class,
\* with the parameters of the file when the file exists.
LoadModelFromFile(fs, path) == IF path \in DOMAIN fs THEN fs[path] ELSE Params(0, 0)

\* The files load_model_from_file is called with: the end checkpoint of a
\* round, which exists once a train call of the round has ended.
ModelFiles == {SavePath(r, EndSuffix) : r \in Rounds}

\* load_state_dict(new, strict=True): every layer of the network whose name is
\* in new is copied in place; the names missing and the names unexpected are
\* collected, and reported by a RuntimeError only after the copying.
MissingKeys(new) == Keys \ DOMAIN new
UnexpectedKeys(new) == DOMAIN new \ Keys
LoadStateDict(p, new) == [k \in Keys |-> IF k \in DOMAIN new THEN new[k] ELSE p[k]]

\* -------------------------------------------------------------- evaluation

\* torch.max(outputs.data, 1): the index of the larger class output, the first
\* one on a tie.
Predicted(p, x) == IF Outputs(p, x)[2] > Outputs(p, x)[1] THEN 1 ELSE 0

BatchLabels(batch) == [j \in 1..Len(batch) |-> batch[j][2]]
BatchPredicted(p, batch) == [j \in 1..Len(batch) |-> Predicted(p, batch[j][1])]

\* TotalAdd counting the batches instead of their samples.
TotalAddBatches(total, batch) == total + 1

\* total += labels.size(0)
TotalAdd(total, batch) == total + Len(batch)
\* correct += (predicted == labels).sum().item()
CorrectAdd(correct, p, batch) ==
    correct + Cardinality({j \in 1..Len(batch) : Predicted(p, batch[j][1]) = batch[j][2]})

\* One iteration of the loop of test over the test data source.
TestBatch(p, batch, acc) ==
    [total |-> TotalAdd(acc.total, batch),
     correct |-> CorrectAdd(acc.correct, p, batch),
     targets |-> acc.targets \o BatchLabels(batch),
     preds |-> acc.preds \o BatchPredicted(p, batch),
     loss |-> acc.loss + LossFunction(p, batch)]

RECURSIVE TestPass(_, _, _)
TestPass(p, loader, acc) ==
    IF loader = << >> THEN acc
    ELSE TestPass(p, Tail(loader), TestBatch(p, Head(loader), acc))

RECURSIVE SortedSeq(_)
SortedSeq(S) ==
    IF S = {} THEN << >>
    ELSE LET m == CHOOSE m \in S : \A n \in S : m <= n
         IN <<m>> \o SortedSeq(S \ {m})

Range(s) == {s[j] : j \in 1..Len(s)}

\* sklearn's confusion_matrix(targets_, pred_): the classes are the sorted
\* labels that occur among the targets or the predictions; entry [r][c] counts
\* the samples of true class r predicted as class c.
ConfusionMatrix(targets, preds) ==
    LET labels == SortedSeq(Range(targets) \cup Range(preds))
        n == Len(labels)
    IN [r \in 1..n |-> [c \in 1..n |->
          Cardinality({j \in 1..Len(targets) :
                         targets[j] = labels[r] /\ preds[j] = labels[c]})]]

\* numpy.sum(confusion_mat, axis=0): the sum of each column.
SumAxis0(cm) == [c \in 1..Len(cm) |-> SumSeq([r \in 1..Len(cm) |-> cm[r][c]])]
\* numpy.sum(confusion_mat, axis=1): the sum of each row.
SumAxis1(cm) == [r \in 1..Len(cm) |-> SumSeq(cm[r])]
\* numpy.diagonal(confusion_mat)
Diagonal(cm) == [c \in 1..Len(cm) |-> cm[c][c]]

\* CalculateClassPrecision dividing by the sums of the rows.
CalculateClassPrecisionByRow(cm) ==
    [c \in 1..Len(cm) |-> Div(Diagonal(cm)[c], SumAxis1(cm)[c])]

CalculateClassPrecision(cm) ==
    [c \in 1..Len(cm) |-> Div(Diagonal(cm)[c], SumAxis0(cm)[c])]
CalculateClassRecall(cm) ==
    [c \in 1..Len(cm) |-> Div(Diagonal(cm)[c], SumAxis1(cm)[c])]

\* apply_class_label_replacement(X, Y, replacement_method, poison_strength) as
\* called by poison_data with the first two elements of the training data
\* source: the data source made of the two, every label replaced.
FlipBatch(batch) == [j \in 1..Len(batch) |-> <<batch[j][1], 1 - batch[j][2]>>]
ApplyClassLabelReplacement(first, second) ==
    ListLoader(<<FlipBatch(first), FlipBatch(second)>>)

\* get_attributes_name(): the set of the labels of the training data source.
GetAttributesName(loader) ==
    UNION { {loader.batches[b][j][2] : j \in 1..Len(loader.batches[b])} :
            b \in 1..Len(loader.batches) }

\* ------------------------------------------------------------------ state

VARIABLES
    \* the client
    tensors,            \* storage address -> parameter set
    momentum_buffer,    \* the optimizer's momentum buffer of each parameter
    grad,               \* p.grad of each parameter
    lr,                 \* optimizer.param_groups[0]['lr'], in halves
    epoch_idx,          \* the scheduler's step count
    optimizer_params,   \* the address of the parameters the optimizer steps
    mu,                 \* the proximal coefficient
    train_data_loader,
    test_data_loader,
    training,           \* the network's mode: train() / eval()
    \* the process and its surroundings
    rng,                \* the state of the process's random generator
    files,              \* checkpoint name -> the parameter set saved
    logs,               \* the loss lines logged by the train call in progress or last ended
    \* the frame of train
    pc,                 \* "idle", or the position in train: "epoch", "batch"
    round, epochs, type,
    server_model,       \* the address of the round-start snapshot
    epoch, i,
    running_loss,       \* << >> while unbound, else <<value>>
    \* the last call
    calls,              \* the number of operations called so far
    ret,                \* what the last operation returned or raised, "running" while it runs
    confusion_mat, class_precision, class_recall,   \* the locals of the last test
    \* observers
    pre_call,           \* parameters, scheduler and optimizer state when the last operation began
    start_writes,       \* writes of the start checkpoint by the train call
    opt_steps,          \* optimizer steps of the train call
    start_write_steps,  \* the value of opt_steps at each write of the start checkpoint
    window,             \* the losses added to running_loss since it was last zeroed
    step,               \* the last batch step: what it read and what it computed
    epochs_run,         \* the epochs begun by all train calls of the client
    run_start,          \* the inputs and the state the train call started from
    runs                \* one record per train call ended

client == <<tensors, momentum_buffer, grad, lr, epoch_idx, optimizer_params, mu,
            train_data_loader, test_data_loader, training>>
frame == <<pc, round, epochs, type, server_model, epoch, i, running_loss>>
evaluation == <<confusion_mat, class_precision, class_recall>>
observers == <<pre_call, start_writes, opt_steps, start_write_steps, window, step,
               epochs_run, run_start, runs>>
vars == <<client, rng, files, logs, frame, calls, ret, evaluation, observers>>

net == tensors[NetAddr]

NoStep == [batch |-> << >>, before |-> Params(0, 0), snapshot |-> Params(0, 0),
           type |-> "", mu |-> 0, primary |-> 0, loss |-> 0]
NoRun == [seed |-> NoSeed, data |-> << >>, type |-> "", epochs |-> 0,
          start |-> Params(0, 0), mu |-> 0, buf |-> Params(0, 0), lr |-> 0,
          idx |-> 0, held |-> TRUE]

\* Whether the optimizer holds the parameters of the network self.net names.
Held == optimizer_params = NetAddr

Snapshot == [params |-> net, buf |-> momentum_buffer, lr |-> lr, idx |-> epoch_idx]

\* The state after Client(args, client_idx, train_data_loader, test_data_loader):
\* the default model, a new optimizer and a new scheduler.
Init ==
    /\ tensors = (NetAddr :> Params(0, 0))
    /\ momentum_buffer = Params(0, 0)
    /\ grad = Params(0, 0)
    /\ lr = LearningRate
    /\ epoch_idx = 0
    /\ optimizer_params = NetAddr
    /\ mu = ArgsMu
    /\ train_data_loader \in TrainLoaders
    /\ test_data_loader \in TestLoaders
    /\ training = TRUE
    /\ rng = 0
    /\ files = << >>
    /\ logs = << >>
    /\ pc = "idle"
    /\ round = 0 /\ epochs = 0 /\ type = ""
    /\ server_model = NoRef
    /\ epoch = 0 /\ i = 0
    /\ running_loss = << >>
    /\ calls = 0
    /\ ret = [op |-> "init", kind |-> "return", value |-> << >>]
    /\ confusion_mat = << >> /\ class_precision = << >> /\ class_recall = << >>
    /\ pre_call = [params |-> Params(0, 0), buf |-> Params(0, 0),
                   lr |-> LearningRate, idx |-> 0]
    /\ start_writes = 0 /\ opt_steps = 0 /\ start_write_steps = << >>
    /\ window = << >>
    /\ step = NoStep
    /\ epochs_run = 0
    /\ run_start = NoRun
    /\ runs = {}

\* The construction of the next client of the process, over the data sources
\* of the client before it and with args.mu = m: it has its own network,
\* optimizer and scheduler, and shares with the clients before it the
\* process's generator and the checkpoint folder.
Construct(m) ==
    /\ pc = "idle"
    /\ calls < MaxCalls
    /\ calls' = calls + 1
    /\ tensors' = (NetAddr :> Params(0, 0))
    /\ momentum_buffer' = Params(0, 0)
    /\ grad' = Params(0, 0)
    /\ lr' = LearningRate
    /\ epoch_idx' = 0
    /\ optimizer_params' = NetAddr
    /\ mu' = m
    /\ training' = TRUE
    /\ ret' = [op |-> "init", kind |-> "return", value |-> << >>]
    /\ pre_call' = [params |-> Params(0, 0), buf |-> Params(0, 0),
                    lr |-> LearningRate, idx |-> 0]
    /\ epochs_run' = 0
    /\ UNCHANGED <<train_data_loader, test_data_loader, rng, files, logs, frame,
                   evaluation, start_writes, opt_steps, start_write_steps, window, step,
                   run_start, runs>>

\* ------------------------------------------------------------------ train

\* The seeding at the head of train: with a seed, the generator restarts from
\* it; with None it is left as it is.
SeedRng(seed, r) == IF seed # NoSeed THEN ManualSeed(seed) ELSE r

\* train(round, epochs, type, seed) up to the loop: seed the generators and
\* take the snapshot of the parameters.
TrainBegin(r, e, t, s) ==
    /\ pc = "idle"
    /\ calls < MaxCalls
    /\ calls' = calls + 1
    /\ rng' = SeedRng(s, rng)
    /\ LET copy == DeepCopy(tensors, GetNnParameters)
       IN /\ server_model' = copy.ref
          /\ tensors' = copy.store
    /\ round' = r /\ epochs' = e /\ type' = t
    /\ epoch' = 0 /\ i' = 0
    /\ running_loss' = << >>
    /\ pc' = "epoch"
    /\ logs' = << >>
    /\ pre_call' = Snapshot
    /\ start_writes' = 0 /\ opt_steps' = 0 /\ start_write_steps' = << >>
    /\ window' = << >>
    /\ step' = NoStep
    /\ run_start' = [seed |-> s, data |-> train_data_loader, type |-> t, epochs |-> e,
                     start |-> net, mu |-> mu, buf |-> momentum_buffer, lr |-> lr,
                     idx |-> epoch_idx, held |-> Held]
    /\ ret' = [op |-> "train", kind |-> "running", value |-> << >>]
    /\ UNCHANGED <<momentum_buffer, grad, lr, epoch_idx, optimizer_params, mu,
                   train_data_loader, test_data_loader, training, files, evaluation,
                   epochs_run, runs>>

\* The head of one epoch: training mode, the start checkpoint, running_loss
\* = 0.0, and the enumeration of the training data source from its first batch.
EpochBegin ==
    /\ pc = "epoch"
    /\ epoch < epochs
    /\ training' = TRUE
    /\ files' = SaveModel(files, tensors, round, StartSuffix)
    /\ running_loss' = <<0>>
    /\ i' = 0
    /\ pc' = "batch"
    /\ start_writes' = start_writes + 1
    /\ start_write_steps' = Append(start_write_steps, opt_steps)
    /\ window' = << >>
    /\ epochs_run' = epochs_run + 1
    /\ UNCHANGED <<tensors, momentum_buffer, grad, lr, epoch_idx, optimizer_params, mu,
                   train_data_loader, test_data_loader, rng, logs, round, epochs, type,
                   server_model, epoch, calls, ret, evaluation, pre_call, opt_steps, step,
                   run_start, runs>>

\* Whether the batch of index idx of epoch ep is followed by a log line.
LogsNow(idx, ep, eps) == idx % LogInterval = 0 /\ ep = eps - 1

\* The value of the log line: running_loss / log_interval, an integer or a
\* half, which the line's %.3f prints exactly.
LoggedLoss(total) == Div(total, LogInterval)

\* One batch: zero_grad, forward, loss (with the proximal term for a proximal
\* objective), backward, optimizer step, running loss, and the log line.  The
\* forward and the backward pass are those of self.net; optimizer.step()
\* updates the parameters the optimizer holds from their gradients, and skips
\* them when they have none, as those of a replaced network do.
BatchStep ==
    /\ pc = "batch"
    /\ i < Len(train_data_loader.batches)
    /\ LET batch == train_data_loader.batches[i + 1]
           snapshot == tensors[server_model]
           loss == StepLoss(net, batch, type, mu, snapshot)
           g == Backward(ZeroGrad(grad, Held), net, batch, type, mu, snapshot)
           buf == IF Held THEN SgdBuffer(momentum_buffer, g) ELSE momentum_buffer
           total == running_loss[1] + loss
       IN /\ grad' = g
          /\ momentum_buffer' = buf
          /\ tensors' = IF Held
                        THEN [tensors EXCEPT ![NetAddr] = SgdParams(net, buf, lr)]
                        ELSE tensors
          /\ step' = [batch |-> batch, before |-> net, snapshot |-> snapshot,
                      type |-> type, mu |-> mu,
                      primary |-> LossFunction(net, batch), loss |-> loss]
          /\ IF LogsNow(i, epoch, epochs)
             THEN /\ logs' = Append(logs, [epoch |-> epoch, i |-> i, value |-> LoggedLoss(total),
                                           window |-> Append(window, loss)])
                  /\ running_loss' = <<0>>
                  /\ window' = << >>
             ELSE /\ logs' = logs
                  /\ running_loss' = <<total>>
                  /\ window' = Append(window, loss)
    /\ i' = i + 1
    /\ opt_steps' = opt_steps + 1
    /\ UNCHANGED <<lr, epoch_idx, optimizer_params, mu, train_data_loader,
                   test_data_loader, training, rng, files, pc, round, epochs, type,
                   server_model, epoch, calls, ret, evaluation, pre_call, start_writes, start_write_steps,
                   epochs_run, run_start, runs>>

\* EpochEnd without the scheduler's step.
EpochEndNoStep ==
    /\ pc = "batch"
    /\ i = Len(train_data_loader.batches)
    /\ epoch' = epoch + 1
    /\ pc' = "epoch"
    /\ UNCHANGED <<client, rng, files, logs, round, epochs, type, server_model, i,
                   running_loss, calls, ret, evaluation, observers>>

\* The end of one epoch: self.scheduler.step().
EpochEnd ==
    /\ pc = "batch"
    /\ i = Len(train_data_loader.batches)
    /\ epoch_idx' = SchedulerIdx(epoch_idx)
    /\ lr' = SchedulerLr(lr, SchedulerIdx(epoch_idx))
    /\ epoch' = epoch + 1
    /\ pc' = "epoch"
    /\ UNCHANGED <<tensors, momentum_buffer, grad, optimizer_params, mu,
                   train_data_loader, test_data_loader, training, rng, files, logs, round,
                   epochs, type, server_model, i, running_loss, calls, ret, evaluation,
                   pre_call, start_writes, opt_steps, start_write_steps, window, step,
                   epochs_run, run_start, runs>>

\* What train returns: running_loss, a name no epoch has bound when epochs = 0.
TrainReturn(rl) ==
    IF rl = << >>
    THEN [op |-> "train", kind |-> "UnboundLocalError", value |-> << >>]
    ELSE [op |-> "train", kind |-> "return", value |-> rl]

\* After the last epoch: the end checkpoint and the return.
TrainEnd ==
    /\ pc = "epoch"
    /\ epoch >= epochs
    /\ files' = SaveModel(files, tensors, round, EndSuffix)
    /\ ret' = TrainReturn(running_loss)
    /\ runs' = runs \cup {[call |-> calls, start |-> run_start, params |-> net,
                           losses |-> [j \in 1..Len(logs) |-> logs[j].value]]}
    /\ tensors' = [a \in DOMAIN tensors \ {SnapAddr} |-> tensors[a]]
    /\ server_model' = NoRef
    /\ pc' = "idle"
    /\ epoch' = 0 /\ i' = 0
    /\ running_loss' = << >>
    /\ UNCHANGED <<momentum_buffer, grad, lr, epoch_idx, optimizer_params, mu,
                   train_data_loader, test_data_loader, training, rng, logs, round,
                   epochs, type, calls,
                   evaluation, pre_call, start_writes, opt_steps, start_write_steps,
                   window, step, epochs_run, run_start>>

\* ------------------------------------------------------ the other operations

\* What test returns: the four values, whether or not it logged them; a test
\* data source without samples makes 100 * correct / total raise.
TestReturn(log, acc, cm) ==
    IF acc.total = 0
    THEN [op |-> "test", kind |-> "ZeroDivisionError", value |-> << >>, log |-> log]
    ELSE [op |-> "test", kind |-> "return", log |-> log,
          value |-> <<Div(100 * acc.correct, acc.total), acc.loss,
                      CalculateClassPrecision(cm), CalculateClassRecall(cm)>>]

\* test(log): one pass over the test data source in evaluation mode.
Test(log) ==
    /\ pc = "idle"
    /\ calls < MaxCalls
    /\ calls' = calls + 1
    /\ training' = FALSE
    /\ LET acc == TestPass(net, test_data_loader,
                           [total |-> 0, correct |-> 0, targets |-> << >>,
                            preds |-> << >>, loss |-> 0])
           cm == ConfusionMatrix(acc.targets, acc.preds)
       IN /\ ret' = TestReturn(log, acc, cm)
          /\ confusion_mat' = IF acc.total = 0 THEN << >> ELSE cm
          /\ class_precision' = IF acc.total = 0 THEN << >> ELSE CalculateClassPrecision(cm)
          /\ class_recall' = IF acc.total = 0 THEN << >> ELSE CalculateClassRecall(cm)
    /\ pre_call' = Snapshot
    /\ UNCHANGED <<tensors, momentum_buffer, grad, lr, epoch_idx, optimizer_params, mu,
                   train_data_loader, test_data_loader, rng, files, logs, frame, start_writes, opt_steps,
                   start_write_steps, window, step, epochs_run, run_start, runs>>

\* update_nn_parameters(new_params): a strict load of a deep copy.
UpdateNnParameters(new) ==
    /\ pc = "idle"
    /\ calls < MaxCalls
    /\ calls' = calls + 1
    /\ tensors' = [tensors EXCEPT ![NetAddr] = LoadStateDict(net, new)]
    /\ ret' = [op |-> "update_nn_parameters",
               kind |-> IF MissingKeys(new) \cup UnexpectedKeys(new) = {}
                        THEN "return" ELSE "RuntimeError",
               value |-> << >>, new |-> new]
    /\ pre_call' = Snapshot
    /\ UNCHANGED <<momentum_buffer, grad, lr, epoch_idx, optimizer_params, mu,
                   train_data_loader, test_data_loader, training, rng, files, logs, frame,
                   evaluation,
                   start_writes, opt_steps, start_write_steps, window, step,
                   epochs_run, run_start, runs>>

\* set_mu(mu)
SetMu(m) ==
    /\ pc = "idle"
    /\ calls < MaxCalls
    /\ calls' = calls + 1
    /\ mu' = m
    /\ ret' = [op |-> "set_mu", kind |-> "return", value |-> << >>]
    /\ pre_call' = Snapshot
    /\ UNCHANGED <<tensors, momentum_buffer, grad, lr, epoch_idx, optimizer_params,
                   train_data_loader, test_data_loader, training, rng, files, logs, frame,
                   evaluation,
                   start_writes, opt_steps, start_write_steps, window, step,
                   epochs_run, run_start, runs>>

\* poison_data(replacement_method, poison_strength): the training data source
\* becomes what the replacement makes of its elements [0] and [1]; a source
\* that cannot be indexed, and a list with fewer than two elements, make the
\* indexing raise.
PoisonData ==
    /\ pc = "idle"
    /\ calls < MaxCalls
    /\ calls' = calls + 1
    /\ IF ~train_data_loader.subscriptable
       THEN /\ train_data_loader' = train_data_loader
            /\ ret' = [op |-> "poison_data", kind |-> "TypeError", value |-> << >>]
       ELSE IF Len(train_data_loader.batches) < 2
       THEN /\ train_data_loader' = train_data_loader
            /\ ret' = [op |-> "poison_data", kind |-> "IndexError", value |-> << >>]
       ELSE /\ train_data_loader' =
                   ApplyClassLabelReplacement(train_data_loader.batches[1],
                                              train_data_loader.batches[2])
            /\ ret' = [op |-> "poison_data", kind |-> "return", value |-> << >>]
    /\ pre_call' = Snapshot
    /\ UNCHANGED <<tensors, momentum_buffer, grad, lr, epoch_idx, optimizer_params, mu,
                   test_data_loader, training, rng, files, logs, frame, evaluation, start_writes,
                   opt_steps, start_write_steps, window, step, epochs_run, run_start,
                   runs>>

\* set_net(net): self.net names the network handed in, a new instance in
\* training mode.  The optimizer and the scheduler are those of the
\* construction: the optimizer goes on holding the parameters of the network
\* it was built for.
SetNet(new) ==
    /\ pc = "idle"
    /\ calls < MaxCalls
    /\ calls' = calls + 1
    /\ tensors' = (NetAddr :> new) @@ (OldAddr :> tensors[optimizer_params])
    /\ optimizer_params' = OldAddr
    /\ grad' = Params(0, 0)
    /\ training' = TRUE
    /\ ret' = [op |-> "set_net", kind |-> "return", value |-> << >>]
    /\ pre_call' = Snapshot
    /\ UNCHANGED <<momentum_buffer, lr, epoch_idx, mu, train_data_loader,
                   test_data_loader, rng, files, logs, frame, evaluation,
                   start_writes, opt_steps, start_write_steps, window, step,
                   epochs_run, run_start, runs>>

\* save_model(epoch, suffix), called on its own.
SaveModelCall(e, suffix) ==
    /\ pc = "idle"
    /\ calls < MaxCalls
    /\ calls' = calls + 1
    /\ files' = SaveModel(files, tensors, e, suffix)
    /\ ret' = [op |-> "save_model", kind |-> "return", value |-> << >>]
    /\ pre_call' = Snapshot
    /\ UNCHANGED <<client, rng, logs, frame, evaluation, start_writes, opt_steps,
                   start_write_steps, window, step, epochs_run, run_start, runs>>

\* The operations below read the client and leave it as it is.

\* get_attributes_name(), called on its own.
GetAttributesNameCall ==
    /\ pc = "idle"
    /\ calls < MaxCalls
    /\ calls' = calls + 1
    /\ ret' = [op |-> "get_attributes_name", kind |-> "return",
               value |-> GetAttributesName(train_data_loader)]
    /\ pre_call' = Snapshot
    /\ UNCHANGED <<client, rng, files, logs, frame, evaluation, start_writes,
                   opt_steps, start_write_steps, window, step, epochs_run, run_start,
                   runs>>

\* diff_squared_sum(model2), called on its own: a model that is neither a
\* network nor an OrderedDict makes it raise.
DiffSquaredSumCall(model2) ==
    /\ pc = "idle"
    /\ calls < MaxCalls
    /\ calls' = calls + 1
    /\ ret' = IF model2.class # "OrderedDict"
              THEN [op |-> "diff_squared_sum", kind |-> "ValueError", value |-> << >>]
              ELSE [op |-> "diff_squared_sum", kind |-> "return",
                    value |-> DiffSquaredSum(tensors[GetNnParameters], model2.params)]
    /\ pre_call' = Snapshot
    /\ UNCHANGED <<client, rng, files, logs, frame, evaluation, start_writes,
                   opt_steps, start_write_steps, window, step, epochs_run, run_start,
                   runs>>

\* load_model_from_file(model_file_path), called on its own: the model it
\* returns is not the client's.
LoadModelFromFileCall(path) ==
    /\ pc = "idle"
    /\ calls < MaxCalls
    /\ calls' = calls + 1
    /\ ret' = [op |-> "load_model_from_file", kind |-> "return",
               value |-> LoadModelFromFile(files, path)]
    /\ pre_call' = Snapshot
    /\ UNCHANGED <<client, rng, files, logs, frame, evaluation, start_writes,
                   opt_steps, start_write_steps, window, step, epochs_run, run_start,
                   runs>>

Train ==
    \E r \in Rounds, e \in EpochCounts, t \in Objectives, s \in Seeds :
        TrainBegin(r, e, t, s)

Next ==
    \/ \E m \in MuValues : Construct(m)
    \/ Train
    \/ EpochBegin
    \/ BatchStep
    \/ EpochEnd
    \/ TrainEnd
    \/ \E log \in BOOLEAN : Test(log)
    \/ \E new \in NewParamSets : UpdateNnParameters(new)
    \/ \E m \in MuValues : SetMu(m)
    \/ PoisonData
    \/ \E new \in NewNets : SetNet(new)
    \/ \E e \in Rounds, suffix \in SaveSuffixes : SaveModelCall(e, suffix)
    \/ GetAttributesNameCall
    \/ \E model2 \in OtherModels : DiffSquaredSumCall(model2)
    \/ \E path \in ModelFiles : LoadModelFromFileCall(path)

Spec == Init /\ [][Next]_vars

\* ------------------------------------------- the metrics on their own

\* The largest entry of a confusion matrix handed to the two calculations.
MaxCount == 5

\* The square confusion matrices of one and of two classes.
Matrices == UNION {[1..n -> [1..n -> 0..MaxCount]] : n \in 1..2}

InitMetrics ==
    /\ tensors = (NetAddr :> Params(0, 0))
    /\ momentum_buffer = Params(0, 0)
    /\ grad = Params(0, 0)
    /\ lr = LearningRate
    /\ epoch_idx = 0
    /\ optimizer_params = NetAddr
    /\ mu = ArgsMu
    /\ train_data_loader = ListLoader(<< >>)
    /\ test_data_loader \in TestLoaders
    /\ training = TRUE
    /\ rng = 0
    /\ files = << >>
    /\ logs = << >>
    /\ pc = "idle"
    /\ round = 0 /\ epochs = 0 /\ type = ""
    /\ server_model = NoRef
    /\ epoch = 0 /\ i = 0
    /\ running_loss = << >>
    /\ calls = 0
    /\ ret = [op |-> "init", kind |-> "return", value |-> << >>]
    /\ confusion_mat \in Matrices
    /\ class_precision = << >> /\ class_recall = << >>
    /\ pre_call = [params |-> Params(0, 0), buf |-> Params(0, 0),
                   lr |-> LearningRate, idx |-> 0]
    /\ start_writes = 0 /\ opt_steps = 0 /\ start_write_steps = << >>
    /\ window = << >>
    /\ step = NoStep
    /\ epochs_run = 0
    /\ run_start = NoRun
    /\ runs = {}

\* calculate_class_precision(confusion_mat), called on its own.
CalcPrecision ==
    /\ class_precision' = CalculateClassPrecision(confusion_mat)
    /\ UNCHANGED <<client, rng, files, logs, frame, calls, ret, confusion_mat,
                   class_recall, observers>>

\* calculate_class_recall(confusion_mat), called on its own.
CalcRecall ==
    /\ class_recall' = CalculateClassRecall(confusion_mat)
    /\ UNCHANGED <<client, rng, files, logs, frame, calls, ret, confusion_mat,
                   class_precision, observers>>

NextMetrics == CalcPrecision \/ CalcRecall

SpecMetrics == InitMetrics /\ [][NextMetrics]_vars

\* ------------------------------------------------------- model soundness

\* The quotients the model takes with \div are exact: every gradient, and so
\* every momentum buffer, is even, and the proximal coefficient is even.
ExactArithmetic ==
    /\ \A k \in Keys : momentum_buffer[k] % 2 = 0 /\ grad[k] % 2 = 0
    /\ mu % 2 = 0

TrainReturned == pc = "idle" /\ ret.op = "train"

\* ------------------------------------------------------------------ claims

SameInputs(a, b) ==
    /\ a.start.seed = b.start.seed
    /\ a.start.data = b.start.data
    /\ a.start.type = b.start.type
    /\ a.start.epochs = b.start.epochs
    /\ a.start.start = b.start.start

SameResult(a, b) == a.params = b.params /\ a.losses = b.losses

\* The proximal coefficient counts where the objective reads it.
SameObjective(a, b) ==
    a.start.type \in {"fed_prox", "fed_greedy"} => a.start.mu = b.start.mu

SameOptimizerState(a, b) ==
    /\ a.start.buf = b.start.buf
    /\ a.start.lr = b.start.lr
    /\ a.start.idx = b.start.idx
    /\ a.start.held = b.start.held

\* C1 as stated: any two train calls given the same seed, training data,
\* objective, epoch count and starting parameters end with the same parameters
\* and log the same losses, whatever preceded them.  The statement is taken
\* in its favour: the seed is an integer, the proximal coefficient is part of
\* the objective, and the clients hold the network they were constructed with.
C1_DeterminismWhateverPreceded ==
    \A a \in runs, b \in runs :
        (/\ SameInputs(a, b)
         /\ a.start.seed # NoSeed
         /\ a.start.mu = b.start.mu
         /\ a.start.held /\ b.start.held) => SameResult(a, b)

\* C1 as amended: two train calls given the same integer seed, training data,
\* objective (with the same proximal coefficient when it is a proximal one),
\* epoch count and starting parameters, made with the same momentum buffers,
\* learning rate and scheduler step count on clients whose optimizer holds the
\* network's parameters in both calls or in neither, end with the same
\* parameters and log the same losses.
C1_Determinism ==
    \A a \in runs, b \in runs :
        (/\ SameInputs(a, b)
         /\ a.start.seed # NoSeed
         /\ SameObjective(a, b)
         /\ SameOptimizerState(a, b)) => SameResult(a, b)

\* Two train calls of C1's case that trained: epochs over batches, with
\* parameters that moved and losses that were logged.
C1_Witness ==
    \E a \in runs, b \in runs :
        /\ a.call # b.call
        /\ SameInputs(a, b)
        /\ a.start.seed # NoSeed
        /\ SameObjective(a, b)
        /\ SameOptimizerState(a, b)
        /\ a.start.epochs >= 2
        /\ a.start.data.batches # << >>
        /\ a.params # a.start.start
        /\ a.losses # << >>

\* C2: when a train call with epochs >= 1 has returned, the start checkpoint
\* was written exactly once, before any optimizer step of the call, and holds
\* the parameters the network had when train was called.
C2_StartCheckpointOnce ==
    (TrainReturned /\ epochs >= 1) =>
        /\ start_writes = 1
        /\ start_write_steps = <<0>>
        /\ files[SavePath(round, StartSuffix)] = run_start.start

\* A train call of several epochs has returned after optimizer steps that
\* moved the parameters.
C2_Witness ==
    TrainReturned /\ epochs >= 2 /\ opt_steps >= 2 /\ net # run_start.start

KeysMismatch(new) == DOMAIN new # Keys

\* C3: update_nn_parameters with a parameter set whose keys do not match the
\* network's raises the key-mismatch error and leaves every parameter of the
\* network as it was before the call.
C3_StrictLoadAtomic ==
    (pc = "idle" /\ ret.op = "update_nn_parameters" /\ KeysMismatch(ret.new)) =>
        /\ ret.kind = "RuntimeError"
        /\ net = pre_call.params

\* C4: a batch step of a proximal objective adds (mu / 2) * the summed squared
\* difference from the round-start snapshot to the loss, and the gradient the
\* optimizer applies is the gradient of the primary loss plus
\* mu * (w_current - w0) for each parameter; a step of another objective adds
\* nothing to either.
C4_ProximalPenalty ==
    (pc = "batch" /\ opt_steps >= 1) =>
        LET d == [k \in Keys |-> step.before[k] - step.snapshot[k]]
            dss == d[Weight] * d[Weight] + d[Bias] * d[Bias]
        IN IF step.type \in {"fed_prox", "fed_greedy"}
           THEN /\ 2 * (step.loss - step.primary) = step.mu * dss
                /\ \A k \in Keys :
                      grad[k] = LossGrad(step.before, step.batch, k) + step.mu * d[k]
           ELSE /\ step.loss = step.primary
                /\ \A k \in Keys : grad[k] = LossGrad(step.before, step.batch, k)

\* C5: loss lines are logged only in the last epoch of the round, and each
\* value is the mean of the batch losses accumulated since the log line
\* before it, the first line of the epoch included.
C5_LoggedMean ==
    \A j \in 1..Len(logs) :
        /\ logs[j].epoch = epochs - 1
        /\ logs[j].value = Div(SumSeq(logs[j].window), Len(logs[j].window))

\* C6: for every epochs >= 0 and every training data source, train writes the
\* end checkpoint after the last epoch and returns the running loss of the
\* last epoch accumulated since its last log line, 0 when there is none.
C6_EndCheckpointAndReturn ==
    TrainReturned =>
        /\ SavePath(round, EndSuffix) \in DOMAIN files
        /\ files[SavePath(round, EndSuffix)] = net
        /\ ret.kind = "return"
        /\ ret.value = <<SumSeq(window)>>


RECURSIVE Flatten(_)
Flatten(loader) == IF loader = << >> THEN << >> ELSE Head(loader) \o Flatten(Tail(loader))

TestReturned == pc = "idle" /\ ret.op = "test" /\ ret.kind = "return"

\* The samples of the test data source whose argmax prediction is the label.
Hits ==
    LET samples == Flatten(test_data_loader)
    IN {j \in 1..Len(samples) :
          (2 * Score(net, samples[j][1]) > 1) = (samples[j][2] = 1)}

\* C7: test over N >= 1 samples, K of them predicted as labelled, returns the
\* accuracy 100 * K / N; the confusion matrix it builds sums to N and its
\* diagonal to K; and the four values returned are these with log True as
\* with log False.
C7_MetricConsistency ==
    TestReturned =>
        LET samples == Flatten(test_data_loader)
            N == Len(samples)
            K == Cardinality(Hits)
            n == Len(confusion_mat)
        IN /\ ret.value[1] = Div(100 * K, N)
           /\ SumSeq([r \in 1..n |-> SumSeq(confusion_mat[r])]) = N
           /\ SumSeq([r \in 1..n |-> confusion_mat[r][r]]) = K
           /\ ret.value[2] = SumSeq([j \in 1..N |->
                  (Score(net, samples[j][1]) - samples[j][2])
                    * (Score(net, samples[j][1]) - samples[j][2])])
           /\ ret.value[3] = class_precision
           /\ ret.value[4] = class_recall

\* A logging test of a network, no longer the default one, that predicts
\* some samples as labelled and some not.
C7_Witness ==
    /\ TestReturned
    /\ ret.log
    /\ net # Params(0, 0)
    /\ Hits # {}
    /\ Cardinality(Hits) < Len(Flatten(test_data_loader))

\* Whether q is the quotient n / d: not-a-number when both are zero.
IsQuotient(q, n, d) ==
    IF d = 0 THEN n = 0 /\ q = NaN
    ELSE q[2] > 0 /\ q[1] * d = n * q[2]

ColumnTotal(cm, c) == SumSeq([r \in 1..Len(cm) |-> cm[r][c]])
RowTotal(cm, r) == SumSeq([c \in 1..Len(cm) |-> cm[r][c]])

\* C8: for a square confusion matrix M, the precision of class c is
\* M[c][c] / (sum of column c) and its recall M[c][c] / (sum of row c), so
\* [[5,1],[2,4]] gives [5/7, 4/5] and [5/6, 4/6]; a class whose column or row
\* sums to zero gets not-a-number, without an error and without effect on
\* the other classes.
C8_PrecisionRecall ==
    /\ class_precision # << >> =>
          /\ Len(class_precision) = Len(confusion_mat)
          /\ \A c \in 1..Len(confusion_mat) :
                IsQuotient(class_precision[c], confusion_mat[c][c],
                           ColumnTotal(confusion_mat, c))
          /\ confusion_mat = <<<<5, 1>>, <<2, 4>>>> =>
                class_precision = <<<<5, 7>>, <<4, 5>>>>
    /\ class_recall # << >> =>
          /\ Len(class_recall) = Len(confusion_mat)
          /\ \A c \in 1..Len(confusion_mat) :
                IsQuotient(class_recall[c], confusion_mat[c][c],
                           RowTotal(confusion_mat, c))
          /\ confusion_mat = <<<<5, 1>>, <<2, 4>>>> =>
                class_recall = <<<<5, 6>>, <<2, 3>>>>

\* Both vectors computed for a matrix with an empty column and an empty row,
\* the other class of each defined.
C8_Witness ==
    /\ confusion_mat = <<<<0, 3>>, <<0, 0>>>>
    /\ class_precision = <<NaN, <<0, 1>>>>
    /\ class_recall = <<<<0, 1>>, NaN>>

\* C9: throughout a train call the round-start snapshot shares no storage with
\* the network and holds the parameters the network had when train was
\* called, and every proximal distance was measured against those.
C9_AnchorImmutable ==
    pc \in {"epoch", "batch"} =>
        /\ server_model # GetNnParameters
        /\ tensors[server_model] = run_start.start
        /\ opt_steps >= 1 => step.snapshot = run_start.start

\* In the second epoch of a proximal round, after steps that moved the
\* parameters away from the snapshot.
C9_Witness ==
    /\ pc = "batch"
    /\ epoch >= 1
    /\ i >= 1
    /\ IsProximal(type)
    /\ net # run_start.start

\* C10: the scheduler's step count is the number of epochs the client's train
\* calls have executed, the step of an epoch being taken after its batches;
\* update_nn_parameters, test, set_mu and poison_data leave the step count,
\* the learning rate and the momentum buffers as they were.
C10_SchedulerOptimizerPersist ==
    /\ epoch_idx = IF pc = "batch" THEN epochs_run - 1 ELSE epochs_run
    /\ (pc = "idle" /\ ret.op \in {"update_nn_parameters", "test", "set_mu", "poison_data"}) =>
          /\ epoch_idx = pre_call.idx
          /\ lr = pre_call.lr
          /\ momentum_buffer = pre_call.buf

\* An operation other than train has returned on a client whose rounds have
\* stepped the scheduler, decayed the rate and filled the momentum buffers.
C10_Witness ==
    /\ pc = "idle"
    /\ ret.op \in {"update_nn_parameters", "test", "set_mu", "poison_data"}
    /\ epoch_idx >= 2
    /\ lr # LearningRate
    /\ momentum_buffer # Params(0, 0)

====
